---- MODULE Spec2Model ----
(***************************************************************************)
(* Model of nlup/confusion.py: the accumulators Accuracy, BinaryConfusion  *)
(* and Confusion, the mixin they share, their merge (__add__) and their    *)
(* summary statistics.                                                     *)
(*                                                                         *)
(* Python objects live in `heap` (a sequence, the index is the object's    *)
(* identity).  The inner dictionaries of a Confusion matrix are objects of *)
(* their own: rows[o][t] is the inner defaultdict that object o created    *)
(* for truth label t, and heap[i].matrix[t] names the object whose inner   *)
(* dictionary the outer dictionary of i refers to under t (0: no key t).   *)
(* Floats are modelled by exact rationals plus inf, nan and the exception  *)
(* an expression raises.                                                   *)
(***************************************************************************)
EXTENDS Integers, Sequences, FiniteSets, TLC

VARIABLES heap, rows, nupd, log, last

vars == <<heap, rows, nupd, log, last>>

\* ------------------------------------------------------------------ bounds
MaxObjs == 4
MaxUpdates == 2
MaxLen == 2
MaxCount == 2
MaxCell == 6

Labels == {"A", "B"}
Weights == {1, 2}
Hits == {"True", "A"}
\* arguments of BinaryConfusion.update, as Python literals
PyVals == {"True", "False", "0", "'A'"}
\* elements of the sequences passed to BinaryConfusion.batch_update
BatchVals == {"True", "0"}

\* ------------------------------------------------------- float arithmetic
Abs(x) == IF x < 0 THEN -x ELSE x

Sgn(x) == IF x < 0 THEN -1 ELSE IF x = 0 THEN 0 ELSE 1

RECURSIVE GCD(_, _)
GCD(a, b) == IF b = 0 THEN a ELSE GCD(b, a % b)

\* the rational n/d (d # 0) in lowest terms with a positive denominator
Num(n, d) ==
    LET g == GCD(Abs(n), Abs(d))
    IN  [k |-> "num", n |-> Sgn(d) * (n \div g), d |-> Abs(d) \div g]

Int2F(i) == [k |-> "num", n |-> i, d |-> 1]

PosInf == [k |-> "inf", n |-> 1, d |-> 0]

NegInf == [k |-> "inf", n |-> -1, d |-> 0]

NAN == [k |-> "nan", n |-> 0, d |-> 0]

INF == PosInf

Raise(e) == [k |-> e, n |-> 0, d |-> 0]

Exceptions == {"ZeroDivisionError", "AssertionError", "NameError"}

IsExc(v) == v.k \in Exceptions

IsZero(v) == v.k = "num" /\ v.n = 0

\* x + y on floats
FAdd(x, y) ==
    IF IsExc(x) THEN x
    ELSE IF IsExc(y) THEN y
    ELSE IF x.k = "nan" \/ y.k = "nan" THEN NAN
    ELSE IF x.k = "inf" /\ y.k = "inf" THEN (IF x.n = y.n THEN x ELSE NAN)
    ELSE IF x.k = "inf" THEN x
    ELSE IF y.k = "inf" THEN y
    ELSE Num(x.n * y.d + y.n * x.d, x.d * y.d)

FNeg(x) ==
    IF x.k \in {"num", "inf"} THEN [x EXCEPT !.n = -x.n] ELSE x

\* x - y on floats
FSub(x, y) == FAdd(x, FNeg(y))

\* x * y on floats
FMul(x, y) ==
    IF IsExc(x) THEN x
    ELSE IF IsExc(y) THEN y
    ELSE IF x.k = "nan" \/ y.k = "nan" THEN NAN
    ELSE IF x.k = "inf" \/ y.k = "inf"
         THEN (IF IsZero(x) \/ IsZero(y) THEN NAN
               ELSE IF Sgn(x.n) * Sgn(y.n) > 0 THEN PosInf ELSE NegInf)
    ELSE Num(x.n * y.n, x.d * y.d)

\* x / y: Python raises ZeroDivisionError for a zero divisor, int or float
FDiv(x, y) ==
    IF IsExc(x) THEN x
    ELSE IF IsExc(y) THEN y
    ELSE IF IsZero(y) THEN Raise("ZeroDivisionError")
    ELSE IF x.k = "nan" \/ y.k = "nan" THEN NAN
    ELSE IF x.k = "inf" /\ y.k = "inf" THEN NAN
    ELSE IF x.k = "inf"
         THEN (IF Sgn(x.n) * Sgn(y.n) > 0 THEN PosInf ELSE NegInf)
    ELSE IF y.k = "inf" THEN Int2F(0)
    ELSE Num(x.n * y.d, x.d * y.n)

\* x > 0. on floats
FPos(x) == (x.k = "num" /\ x.n > 0) \/ (x.k = "inf" /\ x.n > 0)

\* try: v  except ZeroDivisionError: return dflt
ExceptZeroDivision(v, dflt) == IF v.k = "ZeroDivisionError" THEN dflt ELSE v

IsSquare(n) == \E r \in 0..n : r * r = n

Root(n) == CHOOSE r \in 0..n : r * r = n

\* math.sqrt of a non-negative rational: exact when the rational is a
\* square, otherwise the symbolic value sqrt(n/d) (kind "sqrt")
Sqrt(x) ==
    IF IsExc(x) THEN x
    ELSE IF IsSquare(x.n) /\ IsSquare(x.d) THEN Num(Root(x.n), Root(x.d))
    ELSE [k |-> "sqrt", n |-> x.n, d |-> x.d]

\* x / y where y may be a symbolic square root: the quotient is then the
\* symbolic value sgn(n) * sqrt(|n|/d) (kind "surd")
FDivRoot(x, y) ==
    IF y.k # "sqrt" THEN FDiv(x, y)
    ELSE IF IsExc(x) THEN x
    ELSE LET q == Num(x.n * x.n * y.d, x.d * x.d * y.n)
         IN  [k |-> "surd", n |-> Sgn(x.n) * q.n, d |-> q.d]

\* ------------------------------------------------------------ the objects
NoRow == [g \in Labels |-> 0]

NoRows == [t \in Labels |-> NoRow]

\* an outer dictionary without keys
NoMatrix == [t \in Labels |-> 0]

\* Accuracy.__init__
Accuracy(correct, incorrect) ==
    [kind |-> "Accuracy", correct |-> correct, incorrect |-> incorrect,
     hit |-> "", tp |-> 0, fp |-> 0, fn |-> 0, tn |-> 0, matrix |-> NoMatrix]

\* BinaryConfusion.__init__
BinaryConfusion(hit, tp, fp, fn, tn) ==
    [kind |-> "BinaryConfusion", correct |-> 0, incorrect |-> 0,
     hit |-> hit, tp |-> tp, fp |-> fp, fn |-> fn, tn |-> tn,
     matrix |-> NoMatrix]

\* Confusion.__init__
Confusion ==
    [kind |-> "Confusion", correct |-> 0, incorrect |-> 0,
     hit |-> "", tp |-> 0, fp |-> 0, fn |-> 0, tn |-> 0, matrix |-> NoMatrix]

\* a store is the pair of the object heap and the heap of inner dictionaries
Store(h, r) == [heap |-> h, rows |-> r]

\* the inner dictionary object i sees under truth label t
RowOf(S, i, t) ==
    IF S.heap[i].matrix[t] = 0 THEN NoRow ELSE S.rows[S.heap[i].matrix[t]][t]

\* the cell table of object i: matrix[t][g] for every t and g
Cells(S, i) == [t \in Labels |-> RowOf(S, i, t)]

RECURSIVE SumOver(_, _)
SumOver(f, D) ==
    IF D = {} THEN 0
    ELSE LET x == CHOOSE y \in D : TRUE IN f[x] + SumOver(f, D \ {x})

\* sum(guess_count.values())
RowSum(row) == SumOver(row, Labels)

\* sum(sum(gf.values()) for gf in self.matrix.values())
CellSum(S, i) == SumOver([t \in Labels |-> RowSum(RowOf(S, i, t))], Labels)

\* Accuracy.__len__
Accuracy_len(o) == o.correct + o.incorrect

\* BinaryConfusion.__len__
BinaryConfusion_len(o) == o.tp + o.fp + o.fn + o.tn

\* Confusion.__len__
Confusion_len(o) == o.correct + o.incorrect

\* len(self)
len(o) ==
    CASE o.kind = "Accuracy" -> Accuracy_len(o)
      [] o.kind = "BinaryConfusion" -> BinaryConfusion_len(o)
      [] o.kind = "Confusion" -> Confusion_len(o)

\* Accuracy.accuracy
Accuracy_accuracy(o) == FDiv(Int2F(o.correct), Int2F(len(o)))

\* BinaryConfusion.accuracy
BinaryConfusion_accuracy(o) ==
    ExceptZeroDivision(FDiv(Int2F(o.tp + o.tn), Int2F(len(o))), NAN)

\* Confusion.accuracy
Confusion_accuracy(o) ==
    FDiv(Int2F(o.correct), Int2F(o.correct + o.incorrect))

\* self.accuracy
accuracy(o) ==
    CASE o.kind = "Accuracy" -> Accuracy_accuracy(o)
      [] o.kind = "BinaryConfusion" -> BinaryConfusion_accuracy(o)
      [] o.kind = "Confusion" -> Confusion_accuracy(o)

\* ------------------------------------------------- outcome of a call
Ret(seq) == [exc |-> "", ret |-> seq]

Exc(e) == [exc |-> e, ret |-> <<>>]

Outcome(v) == IF IsExc(v) THEN Exc(v.k) ELSE Ret(<<v>>)

Ref(i) == [k |-> "obj", n |-> i, d |-> 0]

\* ------------------------------------------------------- ConfusionMixin
\* a bound of the Wilson interval for phat = succ/n: symbolic, the value
\* involves z = 1.95996... and a square root
Wilson(side, phat, n) ==
    [k |-> side, n |-> (phat.n * n) \div phat.d, d |-> n]

\* ConfusionMixin.confint
confint(o) ==
    LET p == accuracy(o)
    IN  IF IsExc(p) THEN Exc(p.k)
        ELSE IF len(o) = 0 THEN Ret(<<Int2F(0), Int2F(1)>>)
        ELSE LET n == len(o)
                 phat == accuracy(o)
             IN  Ret(<<Wilson("wilson_lo", phat, n),
                       Wilson("wilson_hi", phat, n)>>)

\* ------------------------------------------------------- Confusion.Kappa
RECURSIVE PeLoop(_, _, _, _, _)
\* the loop of Kappa over the rows of the matrix, Pe accumulated in pe
PeLoop(S, i, keys, Z, pe) ==
    IF keys = {} THEN pe
    ELSE LET t == CHOOSE y \in keys : TRUE
             Pe_i == FDiv(Int2F(RowSum(RowOf(S, i, t))), Int2F(Z))
         IN  PeLoop(S, i, keys \ {t}, Z, FAdd(pe, FMul(Pe_i, Pe_i)))

\* Confusion.Kappa with 1. + Pe for 1. - Pe in the denominator
Confusion_Kappa_SignSlip(S, i) ==
    LET keys == {t \in Labels : S.heap[i].matrix[t] # 0}
        Z == CellSum(S, i)
        Pe == PeLoop(S, i, keys, Z, Int2F(0))
    IN  FDiv(FSub(Confusion_accuracy(S.heap[i]), Pe), FAdd(Int2F(1), Pe))

\* Confusion.Kappa
Confusion_Kappa(S, i) ==
    LET keys == {t \in Labels : S.heap[i].matrix[t] # 0}
        Z == CellSum(S, i)
        Pe == PeLoop(S, i, keys, Z, Int2F(0))
    IN  FDiv(FSub(Confusion_accuracy(S.heap[i]), Pe), FSub(Int2F(1), Pe))

\* ------------------------------------------- BinaryConfusion statistics
\* BinaryConfusion.precision
precision(o) ==
    ExceptZeroDivision(FDiv(Int2F(o.tp), Int2F(o.tp + o.fp)), INF)

\* BinaryConfusion.PPV
PPV(o) == precision(o)

\* BinaryConfusion.recall
recall(o) ==
    ExceptZeroDivision(FDiv(Int2F(o.tp), Int2F(o.tp + o.fn)), INF)

\* BinaryConfusion.sensitivity
sensitivity(o) == recall(o)

\* BinaryConfusion.specificity
specificity(o) ==
    ExceptZeroDivision(FDiv(Int2F(o.tp), Int2F(o.fp + o.tn)), INF)

\* BinaryConfusion.FPR
FPR(o) ==
    ExceptZeroDivision(FDiv(Int2F(o.fp), Int2F(o.fp + o.tn)), INF)

\* BinaryConfusion.NPV
NPV(o) ==
    ExceptZeroDivision(FDiv(Int2F(o.tn), Int2F(o.tn + o.fn)), INF)

\* BinaryConfusion.FDR
FDR(o) == FSub(Int2F(1), PPV(o))

\* BinaryConfusion.Kappa
BinaryConfusion_Kappa(o) ==
    IF len(o) = 0 THEN NAN
    ELSE LET Px == FDiv(Int2F(o.tp + o.fp), Int2F(len(o)))
             Py == FDiv(Int2F(o.tp + o.fn), Int2F(len(o)))
             Pe == FAdd(FMul(Px, Py),
                        FMul(FSub(Int2F(1), Px), FSub(Int2F(1), Py)))
         IN  FDiv(FSub(BinaryConfusion_accuracy(o), Pe), FSub(Int2F(1), Pe))

\* BinaryConfusion.Fscore
Fscore(o, ratio) ==
    IF ~FPos(ratio) THEN Raise("AssertionError")
    ELSE LET r_square == FMul(ratio, ratio)
             P == precision(o)
             R == recall(o)
         IN  FDiv(FMul(FMul(FAdd(Int2F(1), r_square), P), R),
                  FAdd(FMul(r_square, P), R))

\* BinaryConfusion.F1
F1(o) == Fscore(o, Int2F(1))

\* the names bound inside Sscore: its parameters, and the module's globals
SscoreNames ==
    {"self", "ns_ratio", "sqrt", "partial", "defaultdict", "NAN", "INF",
     "ConfusionMixin", "Accuracy", "BinaryConfusion", "Confusion"}

\* the body of Sscore once the name `ratio` is bound to a value
SscoreBody(o, ns_ratio, ratio) ==
    IF ~FPos(ratio) THEN Raise("AssertionError")
    ELSE LET r_square == FMul(ratio, ratio)
             Sp == specificity(o)
             Se == sensitivity(o)
         IN  FDiv(FMul(FMul(FAdd(ns_ratio, r_square), Sp), Se),
                  FMul(FMul(r_square, Sp), Se))

\* BinaryConfusion.Sscore: its first statement reads the name `ratio`
Sscore(o, ns_ratio) ==
    IF "ratio" \notin SscoreNames THEN Raise("NameError")
    ELSE SscoreBody(o, ns_ratio, ns_ratio)

\* BinaryConfusion.S1
S1(o) == Sscore(o, Int2F(1))

\* BinaryConfusion.MCC
MCC(o) ==
    LET N == Int2F(len(o))
        S == FDiv(Int2F(o.tp + o.fn), N)
        P == FDiv(Int2F(o.tp + o.fp), N)
        PS == FMul(P, S)
        denom == Sqrt(FMul(FMul(PS, FSub(Int2F(1), S)), FSub(Int2F(1), P)))
    IN  ExceptZeroDivision(
            FDivRoot(FSub(FDiv(Int2F(o.tp), N), PS), denom), NAN)

\* the statistics of a BinaryConfusion that take no argument
Properties ==
    {"accuracy", "precision", "recall", "specificity", "FPR", "NPV", "FDR",
     "Kappa", "MCC", "F1", "S1"}

\* getattr(o, name) for a BinaryConfusion o
Property(o, name) ==
    CASE name = "accuracy" -> BinaryConfusion_accuracy(o)
      [] name = "precision" -> precision(o)
      [] name = "recall" -> recall(o)
      [] name = "specificity" -> specificity(o)
      [] name = "FPR" -> FPR(o)
      [] name = "NPV" -> NPV(o)
      [] name = "FDR" -> FDR(o)
      [] name = "Kappa" -> BinaryConfusion_Kappa(o)
      [] name = "MCC" -> MCC(o)
      [] name = "F1" -> F1(o)
      [] name = "S1" -> S1(o)

\* ---------------------------------------------------------------- update
\* Accuracy.update
Accuracy_update(S, i, truth, guess) ==
    IF truth = guess
    THEN Store([S.heap EXCEPT ![i].correct = @ + 1], S.rows)
    ELSE Store([S.heap EXCEPT ![i].incorrect = @ + 1], S.rows)

\* bool(v) for the Python literal v
bool(v) == v \notin {"False", "0", "''", "None"}

\* BinaryConfusion.update with the cells of the two errors exchanged
BinaryConfusion_update_Swapped(S, i, truth, guess) ==
    IF bool(truth)
    THEN IF bool(guess)
         THEN Store([S.heap EXCEPT ![i].tp = @ + 1], S.rows)
         ELSE Store([S.heap EXCEPT ![i].fp = @ + 1], S.rows)
    ELSE IF bool(guess)
         THEN Store([S.heap EXCEPT ![i].fn = @ + 1], S.rows)
         ELSE Store([S.heap EXCEPT ![i].tn = @ + 1], S.rows)

\* BinaryConfusion.update
BinaryConfusion_update(S, i, truth, guess) ==
    IF bool(truth)
    THEN IF bool(guess)
         THEN Store([S.heap EXCEPT ![i].tp = @ + 1], S.rows)
         ELSE Store([S.heap EXCEPT ![i].fn = @ + 1], S.rows)
    ELSE IF bool(guess)
         THEN Store([S.heap EXCEPT ![i].fp = @ + 1], S.rows)
         ELSE Store([S.heap EXCEPT ![i].tn = @ + 1], S.rows)

\* Confusion.update: self.matrix[truth] makes the inner dictionary when the
\* key is missing, and [guess] += k writes into that dictionary
Confusion_update(S, i, truth, guess, k) ==
    LET owner == IF S.heap[i].matrix[truth] = 0 THEN i
                 ELSE S.heap[i].matrix[truth]
        r1 == [S.rows EXCEPT ![owner][truth][guess] = @ + k]
        h1 == [S.heap EXCEPT ![i].matrix[truth] = owner]
    IN  IF truth = guess
        THEN Store([h1 EXCEPT ![i].correct = @ + 1], r1)
        ELSE Store([h1 EXCEPT ![i].incorrect = @ + 1], r1)

\* self.update(truth, guess)
update(S, i, truth, guess) ==
    CASE S.heap[i].kind = "Accuracy" -> Accuracy_update(S, i, truth, guess)
      [] S.heap[i].kind = "BinaryConfusion" ->
             BinaryConfusion_update(S, i, truth, guess)
      [] S.heap[i].kind = "Confusion" -> Confusion_update(S, i, truth, guess, 1)

Min(a, b) == IF a < b THEN a ELSE b

\* zip(truths, guesses)
zip(truths, guesses) ==
    [p \in 1..Min(Len(truths), Len(guesses)) |-> <<truths[p], guesses[p]>>]

RECURSIVE ForEachUpdate(_, _, _)
\* for (truth, guess) in pairs: self.update(truth, guess)
ForEachUpdate(S, i, pairs) ==
    IF pairs = <<>> THEN S
    ELSE ForEachUpdate(update(S, i, Head(pairs)[1], Head(pairs)[2]), i,
                       Tail(pairs))

\* batch_update that stops one pair early
batch_update_OffByOne(S, i, truths, guesses) ==
    LET pairs == zip(truths, guesses)
    IN  ForEachUpdate(S, i, SubSeq(pairs, 1, Len(pairs) - 1))

\* ConfusionMixin.batch_update, and the identical overrides in
\* BinaryConfusion and Confusion
batch_update(S, i, truths, guesses) == ForEachUpdate(S, i, zip(truths, guesses))

\* ---------------------------------------------------------------- __add__
\* type(right).__name__; 0 stands for a right operand that is no accumulator
TypeOf(S, j) == IF j = 0 THEN "int" ELSE S.heap[j].kind

\* the result of a + b: the store afterwards and the outcome of the call
Added(S, obj) ==
    [store |-> Store(Append(S.heap, obj), Append(S.rows, NoRows)),
     exc |-> "", ret |-> <<Ref(Len(S.heap) + 1)>>]

Failed(S, e) == [store |-> S, exc |-> e, ret |-> <<>>]

\* Accuracy.__add__
Accuracy_add(S, i, j) ==
    IF TypeOf(S, j) # "Accuracy" THEN Failed(S, "TypeError")
    ELSE Added(S, Accuracy(S.heap[i].correct + S.heap[j].correct,
                           S.heap[i].incorrect + S.heap[j].incorrect))

\* BinaryConfusion.__add__ without the comparison of the hit labels
BinaryConfusion_add_NoHitCheck(S, i, j) ==
    IF TypeOf(S, j) # "BinaryConfusion" THEN Failed(S, "TypeError")
    ELSE Added(S, BinaryConfusion(S.heap[i].hit,
                                  S.heap[i].tp + S.heap[j].tp,
                                  S.heap[i].fp + S.heap[j].fp,
                                  S.heap[i].fn + S.heap[j].fn,
                                  S.heap[i].tn + S.heap[j].tn))

\* BinaryConfusion.__add__
BinaryConfusion_add(S, i, j) ==
    IF TypeOf(S, j) # "BinaryConfusion" THEN Failed(S, "TypeError")
    ELSE IF S.heap[i].hit # S.heap[j].hit THEN Failed(S, "ValueError")
    ELSE Added(S, BinaryConfusion(S.heap[i].hit,
                                  S.heap[i].tp + S.heap[j].tp,
                                  S.heap[i].fp + S.heap[j].fp,
                                  S.heap[i].fn + S.heap[j].fn,
                                  S.heap[i].tn + S.heap[j].tn))

\* retval.matrix = self.matrix.copy(): a new outer dictionary whose values
\* are the inner dictionaries of self
MatrixCopy(m) == m

\* Confusion.__add__: retval.matrix[truth] is the inner dictionary copied
\* from self when self has the key (the same object), a new one of retval
\* otherwise; truth_ptr[guess] += count writes into it
Confusion_add(S, i, j) ==
    IF TypeOf(S, j) # "Confusion" THEN Failed(S, "TypeError")
    ELSE LET n == Len(S.heap) + 1
             copied == MatrixCopy(S.heap[i].matrix)
             rkeys == {t \in Labels : S.heap[j].matrix[t] # 0}
             matrix == [t \in Labels |->
                          IF copied[t] = 0 /\ t \in rkeys THEN n
                          ELSE copied[t]]
             old == Append(S.rows, NoRows)
             new == [o \in 1..n |-> [t \in Labels |->
                       IF t \in rkeys /\ matrix[t] = o
                       THEN [g \in Labels |->
                               old[o][t][g] + S.rows[S.heap[j].matrix[t]][t][g]]
                       ELSE old[o][t]]]
             retval == [Confusion EXCEPT
                          !.matrix = matrix,
                          !.correct = S.heap[i].correct + S.heap[j].correct,
                          !.incorrect = S.heap[i].incorrect + S.heap[j].incorrect]
         IN  [store |-> Store(Append(S.heap, retval), new),
              exc |-> "", ret |-> <<Ref(n)>>]

\* a + b: Python calls type(a).__add__(a, b)
add(S, i, j) ==
    CASE S.heap[i].kind = "Accuracy" -> Accuracy_add(S, i, j)
      [] S.heap[i].kind = "BinaryConfusion" -> BinaryConfusion_add(S, i, j)
      [] S.heap[i].kind = "Confusion" -> Confusion_add(S, i, j)

\* ----------------------------------------------------------- the machine
Ratios == {Num(-1, 1), Int2F(0), Num(1, 2), Int2F(1), Int2F(2)}

SeqsUpTo(V, n) == UNION {[1..m -> V] : m \in 0..n}

RECURSIVE SeqSum(_)
SeqSum(q) == IF q = <<>> THEN 0 ELSE Head(q) + SeqSum(Tail(q))

Objs == 1..Len(heap)

OfKind(kind) == {i \in Objs : heap[i].kind = kind}

Here == Store(heap, rows)

\* the record of the call just made
Call(op, self, right, truths, guesses, k, ratio, exc, ret) ==
    [op |-> op, self |-> self, right |-> right, truths |-> truths,
     guesses |-> guesses, k |-> k, ratio |-> ratio, exc |-> exc, ret |-> ret]

NoCall == Call("", 0, 0, <<>>, <<>>, 0, Int2F(0), "", <<>>)

\* the accumulators a caller can construct empty
Fresh ==
    {Accuracy(0, 0), Confusion}
        \cup {BinaryConfusion(hit, 0, 0, 0, 0) : hit \in Hits}

\* two accumulators a and b have been constructed, of any kinds
Init ==
    /\ \E a \in Fresh, b \in Fresh : heap = <<a, b>>
    /\ rows = <<NoRows, NoRows>>
    /\ nupd = <<0, 0>>
    /\ log = <<>>
    /\ last = NoCall

\* the store S replaces the current one after n more calls of update on i
Updated(S, i, n) ==
    /\ SeqSum(nupd) + n <= MaxUpdates
    /\ heap' = S.heap
    /\ rows' = S.rows
    /\ nupd' = [nupd EXCEPT ![i] = @ + n]
    /\ UNCHANGED log

\* a.update(truth, guess) on an Accuracy
AccuracyUpdate ==
    \E i \in OfKind("Accuracy"), truth \in Labels, guess \in Labels :
        /\ Updated(Accuracy_update(Here, i, truth, guess), i, 1)
        /\ last' = Call("update", i, 0, <<truth>>, <<guess>>, 1, Int2F(0),
                        "", <<>>)

\* a.update(truth, guess) on a BinaryConfusion
BinaryConfusionUpdate ==
    \E i \in OfKind("BinaryConfusion"), truth \in PyVals, guess \in PyVals :
        /\ Updated(BinaryConfusion_update(Here, i, truth, guess), i, 1)
        /\ last' = Call("update", i, 0, <<truth>>, <<guess>>, 1, Int2F(0),
                        "", <<>>)

\* a.update(truth, guess, k) on a Confusion
ConfusionUpdate ==
    \E i \in OfKind("Confusion"), truth \in Labels, guess \in Labels,
       k \in Weights :
        /\ Updated(Confusion_update(Here, i, truth, guess, k), i, 1)
        /\ last' = Call("update", i, 0, <<truth>>, <<guess>>, k, Int2F(0),
                        "", <<>>)

\* the values a caller passes to batch_update, by the kind of accumulator
ValuesFor(i) == IF heap[i].kind = "BinaryConfusion" THEN BatchVals ELSE Labels

\* a.batch_update(truths, guesses)
BatchUpdate ==
    \E i \in Objs :
      \E truths \in SeqsUpTo(ValuesFor(i), MaxLen),
         guesses \in SeqsUpTo(ValuesFor(i), MaxLen) :
        /\ Updated(batch_update(Here, i, truths, guesses), i,
                   Len(zip(truths, guesses)))
        /\ last' = Call("batch_update", i, 0, truths, guesses, 1, Int2F(0),
                        "", <<>>)

\* c = a + right: the result stays on the heap and the merge is logged
Merge(i, j) ==
    LET r == add(Here, i, j)
    IN  /\ Len(heap) < MaxObjs
        /\ heap' = r.store.heap
        /\ rows' = r.store.rows
        /\ nupd' = IF r.exc = "" THEN Append(nupd, 0) ELSE nupd
        /\ log' = IF r.exc = ""
                  THEN Append(log, [l |-> i, r |-> j, out |-> Len(heap) + 1,
                                    at |-> SeqSum(nupd)])
                  ELSE log
        /\ last' = Call("__add__", i, j, <<>>, <<>>, 0, Int2F(0), r.exc, r.ret)

\* c = a + right for an Accuracy a
AccuracyAdd == \E i \in OfKind("Accuracy"), j \in 0..Len(heap) : Merge(i, j)

\* c = a + right for a BinaryConfusion a
BinaryConfusionAdd ==
    \E i \in OfKind("BinaryConfusion"), j \in 0..Len(heap) : Merge(i, j)

\* c = a + right for a Confusion a
ConfusionAdd == \E i \in OfKind("Confusion"), j \in 0..Len(heap) : Merge(i, j)

\* a + right evaluated and the result dropped: the new object leaves the
\* heap again, what the call wrote into existing objects stays
EvalAdd ==
    \E i \in Objs, j \in 0..Len(heap) :
        LET r == add(Here, i, j)
        IN  /\ \A o \in Objs : CellSum(r.store, o) <= MaxCell
            /\ heap' = SubSeq(r.store.heap, 1, Len(heap))
            /\ rows' = SubSeq(r.store.rows, 1, Len(heap))
            /\ last' = Call("__add__", i, j, <<>>, <<>>, 0, Int2F(0), r.exc,
                            IF r.exc = "" THEN <<Ref(0)>> ELSE <<>>)
            /\ UNCHANGED <<nupd, log>>

\* a call that only reads: its outcome is recorded, nothing else changes
Query(op, i, ratio, outcome) ==
    /\ last' = Call(op, i, 0, <<>>, <<>>, 0, ratio, outcome.exc, outcome.ret)
    /\ UNCHANGED <<heap, rows, nupd, log>>

\* a.confint
Confint == \E i \in Objs : Query("confint", i, Int2F(0), confint(heap[i]))

\* a.Kappa on a Confusion
ConfusionKappa ==
    \E i \in OfKind("Confusion") :
        Query("Kappa", i, Int2F(0), Outcome(Confusion_Kappa(Here, i)))

\* getattr(a, name) on a BinaryConfusion
GetProperty ==
    \E i \in OfKind("BinaryConfusion"), name \in Properties :
        Query(name, i, Int2F(0), Outcome(Property(heap[i], name)))

\* a.Fscore(ratio)
CallFscore ==
    \E i \in OfKind("BinaryConfusion"), ratio \in Ratios :
        Query("Fscore", i, ratio, Outcome(Fscore(heap[i], ratio)))

\* a.Sscore(ns_ratio)
CallSscore ==
    \E i \in OfKind("BinaryConfusion"), ratio \in Ratios :
        Query("Sscore", i, ratio, Outcome(Sscore(heap[i], ratio)))

Next ==
    \/ AccuracyUpdate
    \/ BinaryConfusionUpdate
    \/ ConfusionUpdate
    \/ AccuracyAdd
    \/ BinaryConfusionAdd
    \/ ConfusionAdd

\* accumulators filled by update and merged, the results kept
Spec == Init /\ [][Next]_vars

NextEval ==
    \/ AccuracyUpdate
    \/ BinaryConfusionUpdate
    \/ ConfusionUpdate
    \/ EvalAdd

\* accumulators filled by update and merged, the results dropped
SpecEval == Init /\ [][NextEval]_vars

\* one accumulator has been constructed, of any kind
InitOne ==
    /\ \E a \in Fresh : heap = <<a>>
    /\ rows = <<NoRows>>
    /\ nupd = <<0>>
    /\ log = <<>>
    /\ last = NoCall

NextOne ==
    \/ AccuracyUpdate
    \/ BinaryConfusionUpdate
    \/ ConfusionUpdate
    \/ BatchUpdate
    \/ Confint
    \/ ConfusionKappa

\* one accumulator filled by update and batch_update, and queried
SpecOne == InitOne /\ [][NextOne]_vars

\* BinaryConfusion(hit, tp, fp, fn, tn) built with every combination of
\* counts
InitStats ==
    /\ \E hit \in Hits, tp \in 0..MaxCount, fp \in 0..MaxCount,
          fn \in 0..MaxCount, tn \in 0..MaxCount :
           heap = <<BinaryConfusion(hit, tp, fp, fn, tn)>>
    /\ rows = <<NoRows>>
    /\ nupd = <<0>>
    /\ log = <<>>
    /\ last = NoCall

NextStats ==
    \/ GetProperty
    \/ CallFscore
    \/ CallSscore

\* the statistics of a BinaryConfusion, queried
SpecStats == InitStats /\ [][NextStats]_vars

\* ------------------------------------------------------------- the claims
\* what a caller can observe of object i: its counts, its hit label and
\* its cell table
Contents(S, i) ==
    [correct |-> S.heap[i].correct, incorrect |-> S.heap[i].incorrect,
     hit |-> S.heap[i].hit, tp |-> S.heap[i].tp, fp |-> S.heap[i].fp,
     fn |-> S.heap[i].fn, tn |-> S.heap[i].tn, cells |-> Cells(S, i)]

There == Store(heap', rows')

\* the merges made since the last call of update
Live == {q \in DOMAIN log : log[q].at = SeqSum(nupd)}

\* C1: in every Confusion matrix built by updates (any weight) and merges,
\* correct + incorrect equals the sum of all cell counts.
C1_CountsEqualCellSum ==
    \A i \in OfKind("Confusion") :
        heap[i].correct + heap[i].incorrect = CellSum(Here, i)

\* C2: a merge leaves the counts and the cell table of both operands as
\* they were, an update of the result of a merge changes neither operand,
\* and an update of an operand does not change the result.
C2_MergeSharesNoStorage ==
    [][/\ last'.op = "__add__" =>
            \A i \in {last'.self, last'.right} \ {0} :
                Contents(There, i) = Contents(Here, i)
       /\ last'.op = "update" =>
            \A q \in DOMAIN log :
                /\ last'.self = log[q].out =>
                      /\ Contents(There, log[q].l) = Contents(Here, log[q].l)
                      /\ Contents(There, log[q].r) = Contents(Here, log[q].r)
                /\ last'.self \in {log[q].l, log[q].r} =>
                      Contents(There, log[q].out) = Contents(Here, log[q].out)
      ]_vars

\* C3: merge is commutative and associative: of the merges evaluated one
\* after another on the same operands (no update in between), a + b and
\* b + a have equal contents, and so have (a + b) + c and a + (b + c).
C3_MergeCommutesAndAssociates ==
    /\ \A p \in Live, q \in Live :
           (log[p].l = log[q].r /\ log[p].r = log[q].l) =>
               Contents(Here, log[p].out) = Contents(Here, log[q].out)
    /\ \A p \in Live, q \in Live, r \in Live, s \in Live :
           (/\ log[q].l = log[p].out
            /\ log[s].r = log[r].out
            /\ log[s].l = log[p].l
            /\ log[r].l = log[p].r
            /\ log[r].r = log[q].r) =>
               Contents(Here, log[q].out) = Contents(Here, log[s].out)

\* C4: no statistic of a BinaryConfusion raises ZeroDivisionError, whatever
\* the four counts: accuracy, precision, recall, specificity, FPR, NPV,
\* FDR, Kappa, MCC, and Fscore(ratio) for ratio > 0.
C4_NoZeroDivision ==
    (\/ last.op \in {"accuracy", "precision", "recall", "specificity", "FPR",
                     "NPV", "FDR", "Kappa", "MCC"}
     \/ (last.op = "Fscore" /\ FPos(last.ratio)))
        => last.exc # "ZeroDivisionError"

\* C5: confint returns (0, 1) without raising whenever the accumulator
\* holds no observation, for Accuracy, BinaryConfusion and Confusion.
C5_ConfintOfEmpty ==
    (last.op = "confint" /\ len(heap[last.self]) = 0)
        => (last.exc = "" /\ last.ret = <<Int2F(0), Int2F(1)>>)

\* the Confusion matrix i holds at least one observation, every update of
\* it had truth == guess and weight 1
PerfectAgreement(i) ==
    /\ heap[i].kind = "Confusion"
    /\ heap[i].correct >= 1
    /\ heap[i].incorrect = 0
    /\ CellSum(Here, i) = heap[i].correct

\* the truth labels observed by the Confusion matrix i
Observed(i) == {t \in Labels : heap[i].matrix[t] # 0}

\* C6 as stated: Kappa of a matrix in perfect agreement is exactly 1 for
\* any label distribution, a single label included.
C6_KappaIsOne ==
    (last.op = "Kappa" /\ PerfectAgreement(last.self))
        => (last.exc = "" /\ last.ret = <<Int2F(1)>>)

\* C6 amended: Kappa of a matrix in perfect agreement is exactly 1 when at
\* least two distinct labels were observed, and raises ZeroDivisionError
\* when all observations carry one single label (Pe = 1).
C6_KappaIsOneForTwoLabels ==
    (last.op = "Kappa" /\ PerfectAgreement(last.self))
        => IF Cardinality(Observed(last.self)) >= 2
           THEN last.exc = "" /\ last.ret = <<Int2F(1)>>
           ELSE last.exc = "ZeroDivisionError"

C6_Witness ==
    /\ last.op = "Kappa"
    /\ PerfectAgreement(last.self)
    /\ Observed(last.self) = Labels
    /\ last.ret = <<Int2F(1)>>

\* C7: a + b raises TypeError exactly when b is not of the kind of a, a
\* BinaryConfusion a + b of the same kind raises ValueError exactly when
\* the hit labels differ, a merge that raises produces no result and
\* leaves both operands as they were, and no other merge raises.
C7_MergeErrors ==
    [][last'.op = "__add__" =>
         LET i == last'.self
             j == last'.right
             sameKind == TypeOf(Here, j) = heap[i].kind
             sameHit == heap[i].kind = "BinaryConfusion" => heap[i].hit = heap[j].hit
         IN  /\ last'.exc = "TypeError" <=> ~sameKind
             /\ last'.exc = "ValueError" <=> (sameKind /\ ~sameHit)
             /\ last'.exc = "" <=> (sameKind /\ sameHit)
             /\ last'.exc # "" =>
                   /\ last'.ret = <<>>
                   /\ Len(heap') = Len(heap)
                   /\ \A o \in {i, j} \ {0} :
                          Contents(There, o) = Contents(Here, o)
      ]_vars

C7_Witness ==
    /\ last.op = "__add__"
    /\ last.exc = "ValueError"
    /\ len(heap[last.self]) >= 1
    /\ len(heap[last.right]) >= 1

\* C8: BinaryConfusion.update(truth, guess) adds 1 to exactly one count,
\* tp for (true, true), fn for (true, false), fp for (false, true), tn for
\* (false, false) after bool(), and leaves the other counts and the hit
\* label alone; after n updates of a fresh matrix tp + fp + fn + tn = n
\* and no count is negative.
C8_UpdateIncrementsOneCell ==
    [][/\ (last'.op = "update" /\ heap[last'.self].kind = "BinaryConfusion") =>
            LET i == last'.self
                t == bool(last'.truths[1])
                g == bool(last'.guesses[1])
                D(b) == IF b THEN 1 ELSE 0
            IN  /\ heap'[i].tp = heap[i].tp + D(t /\ g)
                /\ heap'[i].fn = heap[i].fn + D(t /\ ~g)
                /\ heap'[i].fp = heap[i].fp + D(~t /\ g)
                /\ heap'[i].tn = heap[i].tn + D(~t /\ ~g)
                /\ heap'[i].hit = heap[i].hit
       /\ \A i \in 1..Len(heap') :
            heap'[i].kind = "BinaryConfusion" =>
                /\ heap'[i].tp + heap'[i].fp + heap'[i].fn + heap'[i].tn = nupd'[i]
                /\ heap'[i].tp >= 0 /\ heap'[i].fp >= 0
                /\ heap'[i].fn >= 0 /\ heap'[i].tn >= 0
      ]_vars

C8_Witness ==
    /\ last.op = "update"
    /\ heap[last.self].kind = "BinaryConfusion"
    /\ last.truths = <<"'A'">>
    /\ last.guesses = <<"0">>
    /\ heap[last.self].fn = 1
    /\ nupd[last.self] = 2

\* the number of positions where both sequences hold the same value
Matches(truths, guesses) ==
    Cardinality({p \in 1..Min(Len(truths), Len(guesses)) :
                     truths[p] = guesses[p]})

\* C9: after batch_update(truths, guesses) on a fresh Accuracy the length
\* is min(len(truths), len(guesses)), correct is the number of positions
\* below that bound where truths and guesses agree, and
\* correct + incorrect is the length.
C9_BatchUpdateCounts ==
    [][(/\ last'.op = "batch_update"
        /\ heap[last'.self].kind = "Accuracy"
        /\ heap[last'.self] = Accuracy(0, 0)) =>
         LET o == heap'[last'.self]
             n == Min(Len(last'.truths), Len(last'.guesses))
         IN  /\ len(o) = n
             /\ o.correct = Matches(last'.truths, last'.guesses)
             /\ o.correct + o.incorrect = len(o)
      ]_vars

C9_Witness ==
    /\ last.op = "batch_update"
    /\ heap[last.self].kind = "Accuracy"
    /\ Len(last.truths) = 2
    /\ Len(last.guesses) = 1
    /\ nupd[last.self] = 1
    /\ heap[last.self].correct = 1

\* C10: Fscore(ratio) and Sscore(ratio) fail with an assertion error when
\* ratio <= 0, and for every ratio > 0, and through F1 and S1, they return
\* a number on a matrix whose four counts are all positive.
C10_ScoresCheckRatio ==
    LET o == heap[last.self]
    IN  /\ (last.op \in {"Fscore", "Sscore"} /\ ~FPos(last.ratio)) =>
               last.exc = "AssertionError"
        /\ (/\ \/ last.op \in {"F1", "S1"}
               \/ (last.op \in {"Fscore", "Sscore"} /\ FPos(last.ratio))
            /\ o.tp > 0 /\ o.fp > 0 /\ o.fn > 0 /\ o.tn > 0) =>
               (last.exc = "" /\ last.ret[1].k = "num")

====
